---- MODULE Spec2Model ----
(***************************************************************************)
(* Model of src/main.py: a FastAPI service with a process-wide Whisper     *)
(* model loaded in the lifespan hook, a health endpoint GET / and the      *)
(* upload handler POST /transcribe (transcribe_audio).                     *)
(*                                                                         *)
(* The handlers are coroutines on one asyncio event loop.  A coroutine     *)
(* keeps the loop from the moment it is resumed until it reaches an await  *)
(* or returns; `running` is the request that holds the loop (0 = nobody).  *)
(* transcribe_audio is cut into the steps between which the source can     *)
(* branch or fail; each request slot carries the handler's local           *)
(* variables.                                                              *)
(*                                                                         *)
(* Lines 37 and 79 read the global name torch, which main.py does not      *)
(* import.  torchBound says whether the name resolves: FALSE is the file   *)
(* run as shipped (load_model raises NameError, the startup aborts and no  *)
(* request is ever served), TRUE is the file with the import supplied.     *)
(*                                                                         *)
(* Text is a sequence of tokens: a word such as "Hello" is one             *)
(* non-whitespace token, " " and "\n" are whitespace tokens.  File names   *)
(* are sequences of one-character strings.  Durations are integers in      *)
(* thousandths of a second, rounded durations in hundredths.               *)
(***************************************************************************)
EXTENDS Integers, Sequences, FiniteSets, TLC

\* ------------------------------------------------------------------ bounds
MaxReqs == 2
\* number of requests that can be in flight at once (slots are reused)

NPaths == 2
\* number of names the temporary directory can hand out

MaxSegs == 2
\* longest segment sequence of the clips drawn in SpecSeq

\* ------------------------------------------------------- program constants
MAX_FILE_SIZE == 100 * 1024 * 1024

MODEL_SIZE == "large-v3"

ALLOWED_EXTENSIONS ==
    { <<".", "w", "a", "v">>, <<".", "m", "p", "3">>, <<".", "m", "4", "a">>,
      <<".", "f", "l", "a", "c">>, <<".", "o", "g", "g">>,
      <<".", "w", "e", "b", "m">> }

\* ------------------------------------------------------------ pure helpers
UpperChars ==
    << "A", "B", "C", "D", "E", "F", "G", "H", "I", "J", "K", "L", "M",
       "N", "O", "P", "Q", "R", "S", "T", "U", "V", "W", "X", "Y", "Z" >>

LowerChars ==
    << "a", "b", "c", "d", "e", "f", "g", "h", "i", "j", "k", "l", "m",
       "n", "o", "p", "q", "r", "s", "t", "u", "v", "w", "x", "y", "z" >>

\* str.lower() on one character
LowerChar(c) ==
    IF \E i \in 1..26 : UpperChars[i] = c
    THEN LowerChars[CHOOSE i \in 1..26 : UpperChars[i] = c]
    ELSE c

\* str.lower()
Lower(s) == [i \in 1..Len(s) |-> LowerChar(s[i])]

\* str.rfind(c) + 1: the last position of c in s, 0 when absent
RFind(s, c) ==
    IF \E i \in 1..Len(s) : s[i] = c
    THEN CHOOSE i \in 1..Len(s) : s[i] = c /\ \A j \in (i+1)..Len(s) : s[j] # c
    ELSE 0

RECURSIVE StripTrailingSlashes(_)
StripTrailingSlashes(s) ==
    IF Len(s) > 1 /\ s[Len(s)] = "/"
    THEN StripTrailingSlashes(SubSeq(s, 1, Len(s) - 1))
    ELSE s

\* PurePath.name: the final path component
PathName(p) ==
    LET q == StripTrailingSlashes(p)
        i == RFind(q, "/")
    IN  SubSeq(q, i + 1, Len(q))

\* PurePath.suffix: name[i:] when the last dot is neither the first nor the
\* last character of the name, otherwise the empty string
Suffix(p) ==
    LET name == PathName(p)
        i    == RFind(name, ".")
    IN  IF 1 < i /\ i < Len(name) THEN SubSeq(name, i, Len(name)) ELSE << >>

\* Path(file.filename).suffix.lower()
FileExt(filename) == Lower(Suffix(filename))

IsSpace(t) == t \in {" ", "\n", "\t"}

RECURSIVE LStrip(_)
LStrip(s) == IF s # << >> /\ IsSpace(Head(s)) THEN LStrip(Tail(s)) ELSE s

RECURSIVE RStrip(_)
RStrip(s) ==
    IF s # << >> /\ IsSpace(s[Len(s)])
    THEN RStrip(SubSeq(s, 1, Len(s) - 1))
    ELSE s

\* str.strip()
Strip(s) == RStrip(LStrip(s))

\* mutant: "".join(texts)
RECURSIVE JoinNoSpace(_)
JoinNoSpace(texts) ==
    IF texts = << >> THEN << >> ELSE texts[1] \o JoinNoSpace(Tail(texts))

\* " ".join(texts)
RECURSIVE JoinSpace(_)
JoinSpace(texts) ==
    IF texts = << >> THEN << >>
    ELSE IF Len(texts) = 1 THEN texts[1]
    ELSE texts[1] \o <<" ">> \o JoinSpace(Tail(texts))

\* round(d, 2) for a duration d given in thousandths; the result is in
\* hundredths.  Python rounds the binary value correctly, so an exact tie
\* (possible only for multiples of 1/8 s) goes to the even neighbour.
Round2(d) ==
    LET q == d \div 10
        r == d % 10
    IN  IF r < 5 THEN q
        ELSE IF r > 5 THEN q + 1
        ELSE IF q % 2 = 0 THEN q ELSE q + 1

RECURSIVE SeqsUpTo(_, _)
SeqsUpTo(n, S) ==
    IF n = 0 THEN { << >> }
    ELSE LET shorter == SeqsUpTo(n - 1, S)
         IN  shorter \cup { Append(s, x) : s \in { t \in shorter : Len(t) = n - 1 }, x \in S }

\* --------------------------------------------------------------- inputs
\* declared file names of the uploads
FileNames ==
    { <<"a", ".", "w", "a", "v">>,
      <<"A", ".", "M", "p", "3">>,
      <<"a", ".", "t", "x", "t">>,
      <<".", "w", "a", "v">>,
      <<"a", ".", "w", "a", "v", ".">>,
      <<"x", ".", "w", "a", "v", "/", "b">> }

\* byte lengths of the uploads
Sizes == { MAX_FILE_SIZE, MAX_FILE_SIZE + 1 }

\* An audio clip is identified with what the inference engine makes of it:
\* the segments it yields, the language and duration it reports, and where
\* it raises ("call": inside model.transcribe, "stream": from the segment
\* generator once the listed segments have been yielded).
Clip(segments, language, duration, fault) ==
    [segments |-> segments, language |-> language, duration |-> duration,
     fault |-> fault]

HelloClip == Clip(<< <<"Hello">>, <<"world">> >>, "en", 3456, "none")

CorruptClip == Clip(<< >>, "en", 0, "call")

TruncatedClip == Clip(<< <<"Hello">> >>, "en", 125, "stream")

Upload(filename, size, audio) ==
    [filename |-> filename, size |-> size, audio |-> audio]

\* the uploads of the concurrent runs: one that is transcribed, one on
\* which the engine fails, one that is rejected
DefaultUploads ==
    { Upload(<<"a", ".", "w", "a", "v">>, MAX_FILE_SIZE, HelloClip),
      Upload(<<"A", ".", "M", "p", "3">>, 1, TruncatedClip),
      Upload(<<"a", ".", "t", "x", "t">>, 1, HelloClip) }

SegTexts == { << >>, <<"Hello">>, <<" ", "world", "\n">> }

\* what the engine reports with the segments: language and duration.  0.125
\* and 0.375 are exact binary values half way between two hundredths.
Infos ==
    { [language |-> "en", duration |-> 125],
      [language |-> "fr", duration |-> 375],
      [language |-> "fr", duration |-> 3456] }

AllClips ==
    { Clip(s, i.language, i.duration, "none") :
        s \in SeqsUpTo(MaxSegs, SegTexts), i \in Infos }
    \cup { HelloClip, CorruptClip, TruncatedClip }

\* every file name and size, for the clips of clipSet
Uploads(clipSet) ==
    { Upload(n, z, c) : n \in FileNames, z \in Sizes, c \in clipSet }

\* ---------------------------------------------------------------- state
VARIABLES
    torchBound,     \* whether the name torch resolves when lines 37 and 79 run.
                    \* main.py itself never imports torch: run as shipped the
                    \* name is unbound and load_model raises NameError.
    cudaAvailable,  \* what torch.cuda.is_available() answers
    uploads,        \* the uploads clients send
    phase,          \* "starting", "serving", "aborted" or "stopped"
    model,          \* the global model: << >> for None, else <<handle>>
    fs,             \* the temporary directory: path -> << >> or <<file>>
    running,        \* the request whose coroutine holds the event loop, or 0
    req,            \* request slot -> the handler's locals and its outcome
    rootResp        \* the pending answer of GET /: << >>, or <<response, after>>
                    \* with after = a /transcribe request had failed before it

vars ==
    << torchBound, cudaAvailable, uploads, phase, model, fs, running, req,
       rootResp >>

Reqs == 1..MaxReqs

Paths == 1..NPaths

Nil == << >>

Some(x) == << x >>

NoPath == 0

\* An HTTP response.  fault names the exception that left the handler
\* unhandled ("none" when the handler returned or raised HTTPException).
Response(status, detail, body, fault) ==
    [status |-> status, detail |-> detail, body |-> body, fault |-> fault]

\* raise HTTPException(status_code=..., detail=...)
HTTPException(status, detail) == Response(status, detail, Nil, "none")

\* an exception that is not an HTTPException leaves the handler: the
\* framework answers a bare 500 without a detail
Unhandled(name) == Response(500, Nil, Nil, name)

Entry(level, msg) == [level |-> level, msg |-> msg]

IdleReq ==
    [ pc         |-> "idle",
      file       |-> Nil,      \* the UploadFile parameter
      file_ext   |-> Nil,
      file_size  |-> 0,
      temp_file  |-> NoPath,   \* NoPath stands for None
      temp_path  |-> NoPath,   \* NoPath stands for an unbound local
      content    |-> Nil,
      segments   |-> Nil,      \* the generator: <<[clip, pos]>>
      info       |-> Nil,
      texts      |-> Nil,      \* the list the comprehension builds
      exc        |-> "",       \* str(e) of the exception in flight
      pending    |-> Nil,      \* what the try statement is about to return or raise
      response   |-> Nil,
      log        |-> Nil,
      created    |-> NoPath,   \* history: the scratch file this request created
      modelCalls |-> 0,        \* history: calls of model.transcribe
      ioFault    |-> "none",   \* history: the I/O step that failed
      unlinkFault |-> FALSE ]  \* history: os.unlink raised

\* ------------------------------------------------------------ Model Loader
Device == IF cudaAvailable THEN "cuda" ELSE "cpu"

ComputeType(device) == IF device = "cuda" THEN "float16" ELSE "int8"

\* mutant: the except clause of load_model logs the failure and returns
load_model_swallows(ctorOk) ==
    IF ~torchBound
    THEN [model |-> model, raised |-> "NameError"]
    ELSE IF ctorOk
    THEN [model |-> Some([size |-> MODEL_SIZE, device |-> Device,
                          compute_type |-> ComputeType(Device)]),
          raised |-> "none"]
    ELSE [model |-> model, raised |-> "none"]

\* load_model(): the model it leaves in the global and the exception it
\* raises.  ctorOk says whether the WhisperModel constructor succeeds.
load_model(ctorOk) ==
    IF ~torchBound
    THEN [model |-> model, raised |-> "NameError"]
    ELSE IF ctorOk
    THEN [model |-> Some([size |-> MODEL_SIZE, device |-> Device,
                          compute_type |-> ComputeType(Device)]),
          raised |-> "none"]
    ELSE [model |-> model, raised |-> "Exception"]

\* lifespan() up to its yield: the server starts serving only when the hook
\* reaches the yield; an exception out of the hook aborts the startup.
Startup ==
    /\ phase = "starting"
    /\ \E ctorOk \in BOOLEAN :
         LET r == load_model(ctorOk)
         IN  /\ model' = r.model
             /\ phase' = IF r.raised = "none" THEN "serving" ELSE "aborted"
    /\ UNCHANGED << torchBound, cudaAvailable, uploads, fs, running, req, rootResp >>

\* lifespan() after its yield, once no request is in flight
Shutdown ==
    /\ phase = "serving"
    /\ running = 0
    /\ \A r \in Reqs : req[r].pc = "idle"
    /\ phase' = "stopped"
    /\ UNCHANGED << torchBound, cudaAvailable, uploads, model, fs, running, req, rootResp >>

\* ------------------------------------------------------------------ GET /
\* mutant: the status reflects the requests in flight
root_busy ==
    Response(200, Nil,
             Some([status |-> IF \E r \in 1..MaxReqs : req[r].pc # "idle"
                              THEN "busy" ELSE "running",
                   model |-> MODEL_SIZE, device |-> Device]),
             "none")

root ==
    IF ~torchBound
    THEN Unhandled("NameError")
    ELSE Response(200, Nil,
                  Some([status |-> "running", model |-> MODEL_SIZE,
                        device |-> Device]),
                  "none")

\* root() has no await: it runs in one piece when the loop is free
Root ==
    /\ phase = "serving"
    /\ running = 0
    /\ rootResp = Nil
    /\ rootResp' = << root,
                      \E r \in Reqs : req[r].pc = "done" /\ req[r].response[1].status = 500 >>
    /\ UNCHANGED << torchBound, cudaAvailable, uploads, phase, model, fs, running, req >>

\* the framework has sent the answer of GET /
RootDeliver ==
    /\ rootResp # Nil
    /\ rootResp' = Nil
    /\ UNCHANGED << torchBound, cudaAvailable, uploads, phase, model, fs, running, req >>

\* -------------------------------------------------------- POST /transcribe
env == << torchBound, cudaAvailable, uploads, phase, model, rootResp >>

\* mutant: the segments are consumed with `async for`, one await each
YieldPointsAsyncFor == { "await_read", "consume" }

\* The places where transcribe_audio gives the event loop away: the await
\* of line 119 is the only await of the handler.
YieldPoints == { "await_read" }

\* a coroutine not yet started, suspended at an await or finished runs when
\* the loop is free; one in the middle of a step sequence holds the loop
Suspended(pc) == pc \in YieldPoints \cup { "idle", "done" }

MayRun(r) == IF Suspended(req[r].pc) THEN running = 0 ELSE running = r

\* who holds the loop once request r has moved to pc
Holder(r, pc) == IF Suspended(pc) THEN 0 ELSE r

\* the handler of request r returns or raises: the loop is free again
Exit(rq, resp) == [rq EXCEPT !.pc = "done", !.response = Some(resp)]

\* the framework calls transcribe_audio(file) for a new request
Receive(r) ==
    /\ phase = "serving"
    /\ MayRun(r)
    /\ req[r].pc = "idle"
    /\ \E u \in uploads :
         req' = [req EXCEPT ![r] = [IdleReq EXCEPT !.pc = "check_ext", !.file = Some(u)]]
    /\ running' = Holder(r, req'[r].pc)
    /\ UNCHANGED << env, fs >>

ExtensionAllowed(file_ext) == file_ext \in ALLOWED_EXTENSIONS

\* lines 95-101
CheckExtension(r) ==
    /\ MayRun(r)
    /\ req[r].pc = "check_ext"
    /\ LET file_ext == FileExt(req[r].file[1].filename)
           rq == [req[r] EXCEPT !.file_ext = file_ext]
       IN  IF ~ExtensionAllowed(file_ext)
           THEN /\ req' = [req EXCEPT ![r] =
                              Exit(rq, HTTPException(400, <<"Invalid file type">>))]
           ELSE /\ req' = [req EXCEPT ![r] = [rq EXCEPT !.pc = "check_size"]]
    /\ running' = Holder(r, req'[r].pc)
    /\ UNCHANGED << env, fs >>

\* mutant: the size limit excludes the limit itself
TooLargeInclusive(file_size) == file_size >= MAX_FILE_SIZE

TooLarge(file_size) == file_size > MAX_FILE_SIZE

\* lines 103-112
CheckSize(r) ==
    /\ MayRun(r)
    /\ req[r].pc = "check_size"
    /\ LET file_size == req[r].file[1].size
           rq == [req[r] EXCEPT !.file_size = file_size]
       IN  IF TooLarge(file_size)
           THEN /\ req' = [req EXCEPT ![r] =
                              Exit(rq, HTTPException(400, <<"File too large">>))]
           ELSE /\ req' = [req EXCEPT ![r] = [rq EXCEPT !.pc = "create"]]
    /\ running' = Holder(r, req'[r].pc)
    /\ UNCHANGED << env, fs >>

\* mutant: a fixed or unchecked name, which may be that of an existing file
AnyPath == Paths

\* the names NamedTemporaryFile can pick: it opens with O_EXCL, so never the
\* name of an existing file
FreshPaths == { p \in Paths : fs[p] = Nil }

TempFile(owner, suffix) ==
    [owner |-> owner, suffix |-> suffix, data |-> Nil, open |-> TRUE]

\* lines 114-119: temp_file = None, enter the try and the with statement,
\* then await file.read(), which gives the loop away.  NamedTemporaryFile
\* raises OSError when the directory has no room for a new file.
CreateTemp(r) ==
    /\ MayRun(r)
    /\ req[r].pc = "create"
    /\ \/ \E p \in FreshPaths :
            /\ fs' = [fs EXCEPT ![p] = Some(TempFile(r, req[r].file_ext))]
            /\ req' = [req EXCEPT ![r] =
                          [req[r] EXCEPT !.temp_file = p, !.created = p,
                                         !.pc = "await_read"]]
       \/ /\ req' = [req EXCEPT ![r] =
                          [req[r] EXCEPT !.exc = "cannot create temporary file",
                                         !.ioFault = "create", !.pc = "except"]]
          /\ UNCHANGED fs
    /\ running' = Holder(r, req'[r].pc)
    /\ UNCHANGED env

\* __exit__ of the with statement: the handle is closed, the file stays
\* (delete=False)
Close(dir, p) ==
    IF dir[p] = Nil THEN dir ELSE [dir EXCEPT ![p] = Some([dir[p][1] EXCEPT !.open = FALSE])]

\* line 119 completes: the loop resumes the coroutine with the bytes of the
\* upload, or with the exception of the read
ReadDone(r) ==
    /\ MayRun(r)
    /\ req[r].pc = "await_read"
    /\ \/ /\ req' = [req EXCEPT ![r] =
                          [req[r] EXCEPT !.content = Some([audio |-> req[r].file[1].audio,
                                                            size  |-> req[r].file[1].size]),
                                         !.pc = "write"]]
          /\ UNCHANGED fs
       \/ /\ req' = [req EXCEPT ![r] =
                          [req[r] EXCEPT !.exc = "upload read failed",
                                         !.ioFault = "read", !.pc = "except"]]
          /\ fs' = Close(fs, req[r].temp_file)
    /\ running' = Holder(r, req'[r].pc)
    /\ UNCHANGED env

\* lines 120-123: write the bytes, bind temp_path, leave the with statement
WriteTemp(r) ==
    /\ MayRun(r)
    /\ req[r].pc = "write"
    /\ LET p == req[r].temp_file
       IN  \/ /\ fs' = IF fs[p] = Nil THEN fs   \* unlinked meanwhile: the bytes go to the orphaned inode
                        ELSE [fs EXCEPT ![p] =
                                Some([fs[p][1] EXCEPT !.data = req[r].content, !.open = FALSE])]
              /\ req' = [req EXCEPT ![r] =
                            [req[r] EXCEPT !.temp_path = p,
                                           !.log = Append(@, Entry("INFO", "Processing file")),
                                           !.pc = "transcribe"]]
           \/ /\ fs' = Close(fs, p)
              /\ req' = [req EXCEPT ![r] =
                            [req[r] EXCEPT !.exc = "No space left on device",
                                           !.ioFault = "write", !.pc = "except"]]
    /\ running' = Holder(r, req'[r].pc)
    /\ UNCHANGED env

Raise(rq, text) == [rq EXCEPT !.exc = text, !.pc = "except"]

\* lines 125-131: model.transcribe(temp_path, ...) decodes the file at once
\* and returns the lazy segment generator and the info
Transcribe(r) ==
    /\ MayRun(r)
    /\ req[r].pc = "transcribe"
    /\ LET p  == req[r].temp_path
           rq == [req[r] EXCEPT !.modelCalls = @ + 1]
       IN  req' = [req EXCEPT ![r] =
                IF model = Nil THEN Raise(req[r], "NoneType has no attribute transcribe")
                ELSE IF fs[p] = Nil THEN Raise(rq, "No such file")
                ELSE IF fs[p][1].data = Nil THEN Raise(rq, "Invalid data")
                ELSE LET clip == fs[p][1].data[1].audio
                     IN  IF clip.fault = "call" THEN Raise(rq, "Invalid data")
                         ELSE [rq EXCEPT !.segments = Some([clip |-> clip, pos |-> 0]),
                                         !.info = Some([language |-> clip.language,
                                                        duration |-> clip.duration]),
                                         !.pc = "consume"]]
    /\ running' = Holder(r, req'[r].pc)
    /\ UNCHANGED << env, fs >>

Exhausted(gen) == gen.pos = Len(gen.clip.segments)

\* line 134, one turn of the comprehension: the generator yields its next
\* segment and segment.text is appended
NextSegment(r) ==
    /\ MayRun(r)
    /\ req[r].pc = "consume"
    /\ LET gen == req[r].segments[1]
       IN  /\ ~Exhausted(gen)
           /\ req' = [req EXCEPT ![r] =
                         [req[r] EXCEPT !.segments = Some([gen EXCEPT !.pos = @ + 1]),
                                        !.texts = Append(@, gen.clip.segments[gen.pos + 1])]]
    /\ running' = Holder(r, req'[r].pc)
    /\ UNCHANGED << env, fs >>

\* line 134: the generator raises instead of yielding
StreamFails(r) ==
    /\ MayRun(r)
    /\ req[r].pc = "consume"
    /\ LET gen == req[r].segments[1]
       IN  /\ Exhausted(gen)
           /\ gen.clip.fault = "stream"
           /\ req' = [req EXCEPT ![r] = Raise(req[r], "decoding failed")]
    /\ running' = Holder(r, req'[r].pc)
    /\ UNCHANGED << env, fs >>

\* lines 134-142: " ".join(...), .strip(), round(info.duration, 2)
ResponseBody(texts, info) ==
    [ transcription     |-> Strip(JoinSpace(texts)),
      language_detected |-> info.language,
      duration_seconds  |-> Round2(info.duration) ]

\* lines 134-142: the generator is exhausted; return JSONResponse(...)
Respond(r) ==
    /\ MayRun(r)
    /\ req[r].pc = "consume"
    /\ LET gen == req[r].segments[1]
       IN  /\ Exhausted(gen)
           /\ gen.clip.fault = "none"
           /\ req' = [req EXCEPT ![r] =
                [req[r] EXCEPT
                   !.log = Append(@, Entry("INFO", "Transcription completed")),
                   !.pending = Some(Response(200, Nil,
                                   Some(ResponseBody(req[r].texts, req[r].info[1])), "none")),
                   !.pc = "finally"]]
    /\ running' = Holder(r, req'[r].pc)
    /\ UNCHANGED << env, fs >>

\* mutant: the except clause lets the exception through
ExceptPasses(r) ==
    /\ MayRun(r)
    /\ req[r].pc = "except"
    /\ req' = [req EXCEPT ![r] =
            [req[r] EXCEPT !.pending = Some(Unhandled("Exception")),
                           !.pc = "finally"]]
    /\ running' = Holder(r, req'[r].pc)
    /\ UNCHANGED << env, fs >>

\* lines 144-146: except Exception as e
Except(r) ==
    /\ MayRun(r)
    /\ req[r].pc = "except"
    /\ req' = [req EXCEPT ![r] =
            [req[r] EXCEPT
               !.log = Append(@, Entry("ERROR", "Transcription error")),
               !.pending = Some(HTTPException(500,
                               <<"Transcription failed: ", req[r].exc>>)),
               !.pc = "finally"]]
    /\ running' = Holder(r, req'[r].pc)
    /\ UNCHANGED << env, fs >>

\* os.path.exists(temp_path)
Exists(p) == fs[p] # Nil

\* mutant: os.unlink is called without the inner try/except
FinallyUnguarded(r) ==
    /\ MayRun(r)
    /\ req[r].pc = "finally"
    /\ LET rq == req[r]
       IN  IF rq.temp_file = NoPath
           THEN /\ req' = [req EXCEPT ![r] = Exit(rq, rq.pending[1])]
                /\ UNCHANGED fs
           ELSE IF rq.temp_path = NoPath
           THEN /\ req' = [req EXCEPT ![r] = Exit(rq, Unhandled("UnboundLocalError"))]
                /\ UNCHANGED fs
           ELSE IF ~Exists(rq.temp_path)
           THEN /\ req' = [req EXCEPT ![r] = Exit(rq, rq.pending[1])]
                /\ UNCHANGED fs
           ELSE \/ /\ fs' = [fs EXCEPT ![rq.temp_path] = Nil]
                   /\ req' = [req EXCEPT ![r] = Exit(rq, rq.pending[1])]
                \/ /\ UNCHANGED fs
                   /\ req' = [req EXCEPT ![r] =
                        Exit([rq EXCEPT !.unlinkFault = TRUE], Unhandled("OSError"))]
    /\ running' = Holder(r, req'[r].pc)
    /\ UNCHANGED env

\* lines 148-154: the finally block, then the handler returns or raises.
\* Reading temp_path while it is unbound raises UnboundLocalError, which
\* replaces whatever the try statement was about to return or raise.
Finally(r) ==
    /\ MayRun(r)
    /\ req[r].pc = "finally"
    /\ LET rq == req[r]
       IN  IF rq.temp_file = NoPath
           THEN /\ req' = [req EXCEPT ![r] = Exit(rq, rq.pending[1])]
                /\ UNCHANGED fs
           ELSE IF rq.temp_path = NoPath
           THEN /\ req' = [req EXCEPT ![r] = Exit(rq, Unhandled("UnboundLocalError"))]
                /\ UNCHANGED fs
           ELSE IF ~Exists(rq.temp_path)
           THEN /\ req' = [req EXCEPT ![r] = Exit(rq, rq.pending[1])]
                /\ UNCHANGED fs
           ELSE \/ /\ fs' = [fs EXCEPT ![rq.temp_path] = Nil]
                   /\ req' = [req EXCEPT ![r] = Exit(rq, rq.pending[1])]
                \/ /\ UNCHANGED fs
                   /\ req' = [req EXCEPT ![r] =
                        Exit([rq EXCEPT !.unlinkFault = TRUE,
                                        !.log = Append(@, Entry("WARNING",
                                                   "Failed to delete temp file"))],
                             rq.pending[1])]
    /\ running' = Holder(r, req'[r].pc)
    /\ UNCHANGED env

\* the framework has sent the response; the slot serves the next request.
\* A file the request left behind stays in the directory, owned by nobody
\* (only its existence matters from here on).
Orphan == [owner |-> 0, suffix |-> Nil, data |-> Nil, open |-> FALSE]

Deliver(r) ==
    /\ MayRun(r)
    /\ req[r].pc = "done"
    /\ req' = [req EXCEPT ![r] = IdleReq]
    /\ fs' = [p \in Paths |->
                IF fs[p] # Nil /\ fs[p][1].owner = r
                THEN Some(Orphan)
                ELSE fs[p]]
    /\ running' = Holder(r, req'[r].pc)
    /\ UNCHANGED env

\* ------------------------------------------------------- specifications
InitEnv ==
    /\ torchBound \in BOOLEAN
    /\ phase = "starting"
    /\ model = Nil
    /\ fs = [p \in Paths |-> Nil]
    /\ running = 0
    /\ req = [r \in Reqs |-> IdleReq]
    /\ rootResp = Nil

\* concurrent requests on a host without an accelerator
Init == InitEnv /\ cudaAvailable = FALSE /\ uploads = DefaultUploads

Handler(r) ==
    \/ Receive(r)
    \/ CheckExtension(r)
    \/ CheckSize(r)
    \/ CreateTemp(r)
    \/ ReadDone(r)
    \/ WriteTemp(r)
    \/ Transcribe(r)
    \/ NextSegment(r)
    \/ StreamFails(r)
    \/ Respond(r)
    \/ Except(r)
    \/ Finally(r)
    \/ Deliver(r)

Next ==
    \/ Startup
    \/ Shutdown
    \/ Root
    \/ RootDeliver
    \/ \E r \in Reqs : Handler(r)

Spec == Init /\ [][Next]_vars

\* One request after the other, on either kind of host, with every file
\* name and size and a clip drawn from every bounded engine output.
InitSeq ==
    /\ InitEnv
    /\ cudaAvailable \in BOOLEAN
    /\ \E c \in AllClips : uploads = Uploads({c})

NextSeq ==
    \/ Startup
    \/ Shutdown
    \/ Root
    \/ RootDeliver
    \/ Handler(1)

SpecSeq == InitSeq /\ [][NextSeq]_vars

\* ----------------------------------------------------------------- claims
Done(r) == req[r].pc = "done"

\* the files in the directory that request r created and still owns
FilesOf(r) == { p \in Paths : fs[p] # Nil /\ fs[p][1].owner = r }

\* C1: once a request has created its scratch file, the file no longer
\* exists when the handling of the request exits, on every exit path
\* (success, failed read or write, failed inference), provided os.unlink
\* itself does not fail.
C1_ScratchGoneAtExit ==
    \A r \in Reqs :
        (Done(r) /\ req[r].created # NoPath /\ ~req[r].unlinkFault)
            => FilesOf(r) = {}

\* C2: every exception raised during staging or inference ends the request
\* with an HTTP 500 whose detail is "Transcription failed: " followed by the
\* error text; none leaves transcribe_audio as an unhandled fault.
C2_FailuresBecome500 ==
    \A r \in Reqs :
        (Done(r) /\ req[r].exc # "")
            => req[r].response[1]
                 = HTTPException(500, <<"Transcription failed: ", req[r].exc>>)

\* the claim's reading of "has an allowed extension": the last component of
\* the declared name ends, whatever the case, with one of the six
\* extensions, and has something before it
EndsWithFold(s, e) ==
    /\ Len(s) > Len(e)
    /\ \A i \in 1..Len(e) : LowerChar(s[Len(s) - Len(e) + i]) = e[i]

HasAllowedExtension(filename) ==
    \E e \in ALLOWED_EXTENSIONS : EndsWithFold(PathName(filename), e)

Invalid(u) == ~HasAllowedExtension(u.filename) \/ u.size > 100 * 1024 * 1024

\* C3: an upload whose extension is outside the allow-list, or whose length
\* exceeds 100 MiB, is answered 400 before any scratch file is created and
\* before any call of the model; an upload of at most 100 MiB (exactly
\* 100 MiB included) with an allowed extension is not answered 400.
C3_ValidationFirst ==
    \A r \in Reqs :
        req[r].file # Nil =>
            LET u == req[r].file[1]
            IN  /\ Invalid(u) =>
                      /\ req[r].created = NoPath
                      /\ req[r].modelCalls = 0
                      /\ req[r].pc \in {"check_ext", "check_size", "done"}
                      /\ Done(r) => /\ req[r].response[1].status = 400
                                    /\ req[r].response[1].fault = "none"
                /\ (~Invalid(u) /\ Done(r)) => req[r].response[1].status # 400

\* C3 witness: an oversized upload with an allowed extension was answered
\* 400 and no scratch file was created
C3_Witness ==
    \E r \in Reqs :
        /\ Done(r)
        /\ HasAllowedExtension(req[r].file[1].filename)
        /\ req[r].file[1].size = 100 * 1024 * 1024 + 1
        /\ req[r].response[1].status = 400
        /\ req[r].created = NoPath

\* the request failed in model.transcribe or in the segment generator
InferenceFailed(r) == req[r].modelCalls > 0 /\ req[r].exc # ""

\* C4: if the model raises during inference, in the call of
\* model.transcribe or while the segments are consumed, the scratch file is
\* still deleted (os.unlink not failing; when it fails only a warning is
\* logged, see C9) and the response is a 500 with the detail, never an
\* unhandled fault.
C4_InferenceFailure ==
    \A r \in Reqs :
        (Done(r) /\ InferenceFailed(r)) =>
            /\ ~req[r].unlinkFault => FilesOf(r) = {}
            /\ req[r].unlinkFault =>
                    req[r].log[Len(req[r].log)].level = "WARNING"
            /\ req[r].response[1].status = 500
            /\ req[r].response[1].fault = "none"
            /\ req[r].response[1].detail = <<"Transcription failed: ", req[r].exc>>

\* C4 witness: the generator raised after the scratch file was written; the
\* request ended with a 500 and its scratch file is gone
C4_Witness ==
    \E r \in Reqs :
        /\ Done(r)
        /\ req[r].file[1].audio.fault = "stream"
        /\ InferenceFailed(r)
        /\ req[r].created # NoPath
        /\ FilesOf(r) = {}
        /\ req[r].response[1].status = 500

Handle == [size |-> "large-v3",
           device |-> IF cudaAvailable THEN "cuda" ELSE "cpu",
           compute_type |-> IF cudaAvailable THEN "float16" ELSE "int8"]

\* C5: no request is handled while the model handle is uninitialized: the
\* server serves only after load_model has set the handle, a failed
\* load_model keeps the process from ever serving, and once set the handle
\* is the one load_model built, whatever requests have run.
C5_ModelBeforeRequests ==
    /\ phase \in {"serving", "stopped"} => model = Some(Handle)
    /\ phase \in {"starting", "aborted"} =>
            /\ model = Nil
            /\ \A r \in Reqs : req[r].pc = "idle"
            /\ rootResp = Nil
    /\ \A r \in Reqs : req[r].pc # "idle" => model = Some(Handle)

\* C5 witness: a request is about to call model.transcribe and the handle
\* is set
C5_Witness ==
    \E r \in Reqs : req[r].pc = "transcribe" /\ model # Nil

\* the claim's joining and trimming, written without the handler's helpers
RECURSIVE ClaimJoin(_)
ClaimJoin(segs) ==
    IF segs = << >> THEN << >>
    ELSE IF Len(segs) = 1 THEN segs[1]
    ELSE ClaimJoin(SubSeq(segs, 1, Len(segs) - 1)) \o <<" ">> \o segs[Len(segs)]

ClaimTrim(s) ==
    LET ink == { i \in 1..Len(s) : s[i] \notin {" ", "\n", "\t"} }
    IN  IF ink = {} THEN << >>
        ELSE SubSeq(s, CHOOSE i \in ink : \A j \in ink : i <= j,
                       CHOOSE i \in ink : \A j \in ink : i >= j)

\* C6: on the success path the body is determined by the model output:
\* transcription is the segment texts, each consumed once and in order,
\* joined with one space and trimmed; language_detected is the model's
\* language; duration_seconds is the model's duration rounded to two
\* decimals (Hello, world / en / 3.456 give "Hello world", "en", 3.46).
C6_ResponseBody ==
    \A r \in Reqs :
        (Done(r) /\ req[r].response[1].status = 200) =>
            LET clip == req[r].file[1].audio
                body == req[r].response[1].body[1]
            IN  /\ req[r].modelCalls = 1
                /\ req[r].texts = clip.segments
                /\ req[r].segments[1].pos = Len(clip.segments)
                /\ body.transcription = ClaimTrim(ClaimJoin(clip.segments))
                /\ body.language_detected = clip.language
                /\ 10 * body.duration_seconds - clip.duration \in -5..5
                /\ clip = Clip(<< <<"Hello">>, <<"world">> >>, "en", 3456, "none")
                      => body = [ transcription |-> <<"Hello", " ", "world">>,
                                  language_detected |-> "en",
                                  duration_seconds |-> 346 ]

\* C6 witness: the clip of the example was transcribed
C6_Witness ==
    \E r \in Reqs :
        /\ Done(r)
        /\ req[r].file[1].audio = Clip(<< <<"Hello">>, <<"world">> >>, "en", 3456, "none")
        /\ req[r].response[1].status = 200
        /\ req[r].response[1].body[1].transcription = <<"Hello", " ", "world">>
        /\ req[r].response[1].body[1].duration_seconds = 346

InFlightWithFile(r) ==
    /\ req[r].pc \in {"await_read", "write", "transcribe", "consume", "except", "finally"}
    /\ req[r].temp_file # NoPath

\* no I/O operation of the request failed
FaultFree(r) == req[r].ioFault = "none" /\ ~req[r].unlinkFault

\* C7: the same valid upload issued twice, one after the other or
\* overlapping, gives two successful responses with equal bodies; the two
\* requests use distinct scratch files, neither deletes or overwrites the
\* other's, and none remains once both have exited (no I/O operation
\* failing).
C7_Independent ==
    /\ \A r \in Reqs :
          InFlightWithFile(r) =>
              LET p == req[r].temp_file
              IN  /\ fs[p] # Nil
                  /\ fs[p][1].owner = r
                  /\ fs[p][1].data \in {Nil, Some([audio |-> req[r].file[1].audio,
                                                    size  |-> req[r].file[1].size])}
                  /\ req[r].pc \in {"transcribe", "consume"} => fs[p][1].data # Nil
    /\ \A r1, r2 \in Reqs :
          (r1 # r2 /\ InFlightWithFile(r1) /\ InFlightWithFile(r2))
              => req[r1].temp_file # req[r2].temp_file
    /\ \A r1, r2 \in Reqs :
          ( /\ r1 # r2 /\ Done(r1) /\ Done(r2)
            /\ req[r1].file = req[r2].file
            /\ FaultFree(r1) /\ FaultFree(r2) ) =>
              /\ req[r1].response = req[r2].response
              /\ FilesOf(r1) = {} /\ FilesOf(r2) = {}
              /\ (~Invalid(req[r1].file[1]) /\ req[r1].file[1].audio.fault = "none")
                    => req[r1].response[1].status = 200

\* C7 witness: two requests with the same upload have both been answered
\* 200 and the directory is empty
C7_Witness ==
    \E r1, r2 \in Reqs :
        /\ r1 # r2 /\ Done(r1) /\ Done(r2)
        /\ req[r1].file = req[r2].file
        /\ req[r1].response[1].status = 200
        /\ req[r2].response[1].status = 200
        /\ req[r1].response[1].body = req[r2].response[1].body
        /\ \A p \in Paths : fs[p] = Nil

\* C8: GET / always answers 200 with status "running", the configured model
\* identifier and the active device class, whatever requests were handled
\* before it, and handling it changes nothing but the answer itself.
C8_RootStatic ==
    /\ [](rootResp # Nil =>
            /\ rootResp[1] = Response(200, Nil,
                                Some([status |-> "running", model |-> "large-v3",
                                      device |-> IF cudaAvailable THEN "cuda" ELSE "cpu"]),
                                "none")
            /\ model # Nil
            /\ rootResp[1].body[1].device = model[1].device)
    /\ [][(rootResp = Nil /\ rootResp' # Nil)
            => UNCHANGED << torchBound, cudaAvailable, uploads, phase, model, fs,
                            running, req >>]_vars

\* C8 witness: GET / was answered on an accelerator host after a request
\* had failed
C8_Witness ==
    /\ rootResp # Nil
    /\ cudaAvailable
    /\ rootResp[2]
    /\ rootResp[1].status = 200

\* C9: a failure of os.unlink never changes the outcome: the client gets the
\* response it would have got had the deletion succeeded, and the failure
\* is logged as a warning.
C9_CleanupFailureSilent ==
    /\ \A r \in Reqs :
          (Done(r) /\ req[r].unlinkFault) =>
              /\ req[r].response = req[r].pending
              /\ req[r].response[1].fault = "none"
              /\ req[r].log[Len(req[r].log)] = Entry("WARNING", "Failed to delete temp file")
    /\ \A r1, r2 \in Reqs :
          ( /\ Done(r1) /\ Done(r2)
            /\ req[r1].file = req[r2].file
            /\ req[r1].unlinkFault /\ FaultFree(r2) ) =>
              req[r1].response = req[r2].response

\* C9 witness: of two requests with the same upload one failed to delete
\* its scratch file and the other did not; both were answered 200
C9_Witness ==
    \E r1, r2 \in Reqs :
        /\ Done(r1) /\ Done(r2)
        /\ req[r1].file = req[r2].file
        /\ req[r1].unlinkFault /\ FaultFree(r2)
        /\ req[r1].response[1].status = 200
        /\ req[r2].response[1].status = 200

\* C10: on one event loop a request can be interleaved with another only
\* at the await of the upload read; everywhere else the handler holds the
\* loop, so at most one request is inside the inference call or the
\* consumption of its segments.
C10_SingleYieldPoint ==
    /\ \A r \in Reqs :
          req[r].pc \notin {"idle", "await_read", "done"} => running = r
    /\ Cardinality({ r \in Reqs : req[r].pc \in {"transcribe", "consume"} }) <= 1

\* C10 witness: one request consumes its segments while another is
\* suspended in the upload read
C10_Witness ==
    \E r1, r2 \in Reqs :
        /\ req[r1].pc = "consume"
        /\ req[r2].pc = "await_read"

====
